---- MODULE Spec2Model ----
(***************************************************************************)
(* Orbit playground: the simulation-and-timeline engine.                   *)
(*                                                                         *)
(* The model covers the Universe (snapshot) value and its physics step,    *)
(* the World's timeline and per-frame operations (move_time, the ui        *)
(* widgets that touch the timeline, gen_future) and the background         *)
(* generation thread of World::spawn_update_thread, with the mutex and     *)
(* the condition variable of ThreadState made explicit.                    *)
(*                                                                         *)
(* Real numbers (f64) are modelled in fixed point: an integer n stands     *)
(* for n / Scale.                                                          *)
(***************************************************************************)
EXTENDS Integers, Sequences, FiniteSets, TLC

(***************************************************************************)
(* Bounds of the model.                                                    *)
(***************************************************************************)
\* stands for gen_future = 20000 (lookahead horizon)
GenFuture == 3
\* user interactions that rewrite the timeline
MaxEdits == 1
\* bodies a snapshot may hold
MaxBodies == 2
\* present index up to which wall time keeps flowing
MaxPlay == 2
\* cap of accumulated_time, in units of step_size/1
MaxAcc == 1
\* World constructions
MaxWorlds == 2
\* threads that call BodyId::next_id
MaxCallers == 2
\* stands for the 64 bits of usize, the width of the id counter
UsizeBits == 3
\* entries of a BodyList whose operations are called one by one
MaxStore == 3
\* largest id minted while BodyList operations are called one by one
MaxId == 4
\* the longest timeline that is saved
MaxTimeline == 4

(***************************************************************************)
(* Fixed-point arithmetic standing for f64.                                *)
(***************************************************************************)
Scale == 16
NaN == 1000000000
PI == (314159 * Scale) \div 100000

Abs(a) == IF a < 0 THEN -a ELSE a

\* division rounding toward zero, so that -(a/b) = (-a)/b as for floats
SDiv(a, b) == IF (a < 0) = (b < 0) THEN Abs(a) \div Abs(b) ELSE -(Abs(a) \div Abs(b))

\* f64 multiplication, division, addition and subtraction (functions, so
\* that an argument is evaluated once)
FMul[a \in Int, b \in Int] == IF a = NaN \/ b = NaN THEN NaN ELSE SDiv(a * b, Scale)

FDiv[a \in Int, b \in Int] ==
    IF a = NaN \/ b = NaN \/ b = 0 THEN NaN ELSE SDiv(a * Scale, b)

FAdd[a \in Int, b \in Int] == IF a = NaN \/ b = NaN THEN NaN ELSE a + b

FSub[a \in Int, b \in Int] == IF a = NaN \/ b = NaN THEN NaN ELSE a - b

\* the integer square root of x * x + y * y
Hypot[x \in Int, y \in Int] ==
    CHOOSE r \in 0..(Abs(x) + Abs(y)) :
        r * r <= x * x + y * y /\ (r + 1) * (r + 1) > x * x + y * y

(***************************************************************************)
(* cgmath::Vector2<f64>                                                    *)
(***************************************************************************)
VAdd(a, b) == <<FAdd[a[1], b[1]], FAdd[a[2], b[2]]>>

VSub(a, b) == <<FSub[a[1], b[1]], FSub[a[2], b[2]]>>

VScale(a, k) == <<FMul[a[1], k], FMul[a[2], k]>>

IsNaNV(a) == a[1] = NaN \/ a[2] = NaN

\* |a|^2
magnitude2(a) == IF IsNaNV(a) THEN NaN ELSE SDiv(a[1] * a[1] + a[2] * a[2], Scale)

\* |a|
magnitude(a) == IF IsNaNV(a) THEN NaN ELSE Hypot[a[1], a[2]]

\* a / |a|; the zero vector gives 0/0 in both components
normalize(a) == <<FDiv[a[1], magnitude(a)], FDiv[a[2], magnitude(a)]>>

(***************************************************************************)
(* Body, BodyList                                                          *)
(***************************************************************************)
\* Body::mass
mass(body) == FMul[FMul[body.density, PI], FMul[body.radius, body.radius]]

\* the index pairs visited by BodyList::iter_mut_pairs, in its order
RECURSIVE PairsFrom(_, _, _)
PairsFrom(n, i, j) ==
    IF i > n THEN <<>>
    ELSE IF j > n THEN PairsFrom(n, i + 1, i + 2)
    ELSE <<(<<i, j>>)>> \o PairsFrom(n, i, j + 1)

iter_mut_pairs_from_self(n) == PairsFrom(n, 1, 1)
iter_mut_pairs(n) == PairsFrom(n, 1, 2)

\* BodyList::push with the id BodyId::next_id returned
BodyListPush_front(bodies, id, body) == <<[id |-> id, body |-> body]>> \o bodies
BodyListPush(bodies, id, body) == Append(bodies, [id |-> id, body |-> body])

\* slice::binary_search_by_key over the positions lo .. hi - 1: Ok(index) of
\* the entry with this id, or Err(index) where it would be inserted
RECURSIVE BinarySearch(_, _, _, _)
BinarySearch(bodies, id, lo, hi) ==
    IF lo >= hi THEN [found |-> FALSE, index |-> lo]
    ELSE LET mid == (lo + hi) \div 2
         IN  IF bodies[mid].id = id THEN [found |-> TRUE, index |-> mid]
             ELSE IF bodies[mid].id < id THEN BinarySearch(bodies, id, mid + 1, hi)
             ELSE BinarySearch(bodies, id, lo, mid)

binary_search_by_key(bodies, id) == BinarySearch(bodies, id, 1, Len(bodies) + 1)

\* position of id in the list, 0 when the search gives Err
IndexOf(bodies, id) ==
    LET r == binary_search_by_key(bodies, id)
    IN  IF r.found THEN r.index ELSE 0

\* BodyList::remove: the list afterwards
BodyListRemove_front(bodies, id) ==
    IF IndexOf(bodies, id) = 0 THEN bodies ELSE Tail(bodies)
BodyListRemove(bodies, id) ==
    LET k == IndexOf(bodies, id)
    IN  IF k = 0 THEN bodies
        ELSE SubSeq(bodies, 1, k - 1) \o SubSeq(bodies, k + 1, Len(bodies))

\* what BodyList::remove returns
BodyListRemoved(bodies, id) ==
    LET k == IndexOf(bodies, id)
    IN  IF k = 0 THEN <<>> ELSE <<bodies[k].body>>

\* panic!
Panic == "panic"

\* BodyList::insert: the list afterwards, or the panic
BodyListInsert_overwrites(bodies, id, body) ==
    LET r == binary_search_by_key(bodies, id)
    IN  IF r.found THEN [bodies EXCEPT ![r.index].body = body]
        ELSE SubSeq(bodies, 1, r.index - 1) \o <<[id |-> id, body |-> body]>>
                 \o SubSeq(bodies, r.index, Len(bodies))
BodyListInsert_back(bodies, id, body) ==
    LET r == binary_search_by_key(bodies, id)
    IN  IF r.found THEN Panic ELSE Append(bodies, [id |-> id, body |-> body])
BodyListInsert(bodies, id, body) ==
    LET r == binary_search_by_key(bodies, id)
    IN  IF r.found THEN Panic
        ELSE SubSeq(bodies, 1, r.index - 1) \o <<[id |-> id, body |-> body]>>
                 \o SubSeq(bodies, r.index, Len(bodies))

\* BodyList::get
BodyListGet(bodies, id) ==
    LET r == binary_search_by_key(bodies, id)
    IN  IF r.found THEN <<bodies[r.index].body>> ELSE <<>>

\* BodyList::get_mut: the body the returned reference points to
BodyListGetMut_first(bodies, id) ==
    IF bodies = <<>> THEN <<>> ELSE <<bodies[1].body>>
BodyListGetMut(bodies, id) ==
    LET r == binary_search_by_key(bodies, id)
    IN  IF r.found THEN <<bodies[r.index].body>> ELSE <<>>

\* the ids BodyList::iter_mut_pairs hands to its callback, call by call
PairIds(bodies) ==
    LET pairs == iter_mut_pairs(Len(bodies))
    IN  [k \in 1..Len(pairs) |-> <<bodies[pairs[k][1]].id, bodies[pairs[k][2]].id>>]

\* BodyList::maybe_get_disjoint_mut(ids): per slot the position of the body
\* the returned reference points to, or nothing
maybe_get_disjoint_mut_aliasing(bodies, ids) ==
    [k \in 1..Len(ids) |->
        IF ids[k] = <<>> \/ IndexOf(bodies, ids[k][1]) = 0 THEN <<>>
        ELSE <<IndexOf(bodies, ids[k][1])>>]
maybe_get_disjoint_mut(bodies, ids) ==
    [k \in 1..Len(ids) |->
        IF ids[k] = <<>> THEN <<>>
        ELSE IF IndexOf(bodies, ids[k][1]) = 0 THEN <<>>
        ELSE IF \E j \in 1..(k - 1) : ids[j] = ids[k] THEN <<>>
        ELSE <<IndexOf(bodies, ids[k][1])>>]

(***************************************************************************)
(* Universe                                                                *)
(***************************************************************************)
\* Universe::new
UniverseNew(gravity) == [bodies |-> <<>>, gravity |-> gravity, changed |-> TRUE]

\* impl Clone for Universe: a clone is never marked changed
Clone_keeps_changed(u) == u
Clone(u) == [bodies |-> u.bodies, gravity |-> u.gravity, changed |-> FALSE]

\* the closure of Universe::step applied to the pair (i, j)
Attract(bodies, gravity, dt, i, j) ==
    LET a == bodies[i].body
        b == bodies[j].body
        a_to_b == VSub(b.pos, a.pos)
        dist2 == magnitude2(a_to_b)
        dir == normalize(a_to_b)
        da == VScale(VScale(dir, FDiv[FMul[gravity, mass(b)], dist2]), dt)
        db == VScale(VScale(dir, FDiv[FMul[gravity, mass(a)], dist2]), dt)
    IN  [bodies EXCEPT ![i].body.vel = VAdd(a.vel, da),
                       ![j].body.vel = VSub(b.vel, db)]

RECURSIVE AttractAll(_, _, _, _, _)
AttractAll(bodies, gravity, dt, pairs, k) ==
    IF k > Len(pairs) THEN bodies
    ELSE AttractAll(Attract(bodies, gravity, dt, pairs[k][1], pairs[k][2]),
                    gravity, dt, pairs, k + 1)

\* the second loop of Universe::step
Integrate_drops_nan(bodies, dt) ==
    SelectSeq([i \in 1..Len(bodies) |->
                  [bodies[i] EXCEPT !.body.pos = VAdd(bodies[i].body.pos,
                                                      VScale(bodies[i].body.vel, dt))]],
              LAMBDA e : ~IsNaNV(e.body.pos))
Integrate(bodies, dt) ==
    [i \in 1..Len(bodies) |->
        [bodies[i] EXCEPT !.body.pos = VAdd(bodies[i].body.pos,
                                            VScale(bodies[i].body.vel, dt))]]

\* Universe::step
step(u, dt) ==
    [u EXCEPT !.bodies = Integrate(AttractAll(u.bodies, u.gravity, dt,
                                              iter_mut_pairs(Len(u.bodies)), 1), dt)]

\* what the generation thread computes from its working state
NextState(old_state, step_size) == step(Clone(old_state), step_size)

RECURSIVE StepN(_, _, _)
StepN(u, step_size, n) ==
    IF n = 0 THEN u ELSE StepN(NextState(u, step_size), step_size, n - 1)

\* Option<T>
None == <<>>
Some(x) == <<x>>


\* usize::saturating_sub
saturating_sub(a, b) == IF a > b THEN a - b ELSE 0

Last(s) == s[Len(s)]

(***************************************************************************)
(* Inputs                                                                  *)
(***************************************************************************)
\* World::new(step_size): the step sizes tried
StepSizes == {Scale}

\* step sizes of the runs without user input
QuietStepSizes == {Scale \div 8, Scale \div 4, Scale \div 2, Scale}

\* where the pointer may be when a body is added
MousePositions == {<<0, 3 * Scale>>}

\* the value typed into the velocity field of the selected body
VelocityInputs == {Scale}

\* dt * speed of a frame
Elapsed == {0, Scale}

NewBody(pos) ==
    [name |-> "Unnamed", pos |-> pos, vel |-> <<0, 0>>,
     radius |-> Scale, density |-> Scale, color |-> <<Scale, Scale, Scale>>]

\* a save file holding one snapshot with two bodies at rest
SavedUniverse ==
    [bodies |-> << [id |-> 1, body |-> [name |-> "Red", pos |-> <<-2 * Scale, 0>>,
                                        vel |-> <<0, 0>>, radius |-> Scale,
                                        density |-> Scale, color |-> <<Scale, 0, 0>>]],
                   [id |-> 2, body |-> [name |-> "Green", pos |-> <<2 * Scale, 0>>,
                                        vel |-> <<0, 0>>, radius |-> Scale,
                                        density |-> Scale, color |-> <<0, Scale, 0>>]] >>,
     gravity |-> Scale, changed |-> TRUE]

\* a save file holding one snapshot with one moving body
SavedComet ==
    [bodies |-> << [id |-> 1, body |-> [name |-> "Comet", pos |-> <<0, 0>>,
                                        vel |-> <<Scale, 0>>, radius |-> Scale,
                                        density |-> Scale, color |-> <<0, 0, Scale>>]] >>,
     gravity |-> Scale, changed |-> TRUE]

Saves ==
    {[states |-> <<SavedUniverse>>, current_state |-> 0, step_size |-> Scale,
      next_id |-> 3]}

\* save files of the runs without user input
QuietSaves ==
    Saves \cup {[states |-> <<SavedComet>>, current_state |-> 0,
                 step_size |-> Scale \div 2, next_id |-> 2]}

(***************************************************************************)
(* State                                                                   *)
(***************************************************************************)
VARIABLES
    states,                 \* World::states, the timeline
    current_state,          \* World::current_state, the present index (from 0)
    gen_future,             \* World::gen_future, the lookahead horizon
    step_size,              \* World::step_size
    playing,                \* World::playing
    accumulated_time,       \* World::accumulated_time
    current_state_modified, \* World::current_state_modified
    next_id,                \* the static counter of BodyId::next_id
    world,                  \* how many Worlds were constructed; the last is live
    generation_state,       \* per World: ThreadState::generation_state
    mutex,                  \* per World: who holds the mutex of generation_state
    thread,                 \* per World: the locals of the generation thread
    edits,                  \* history: timeline-rewriting interactions so far
    epoch,                  \* history: number of seeds handed to the thread
    seed,                   \* history: the last seed stored in initial_state
    handed,                 \* history: snapshots of this seed drained so far
    edited,                 \* history: a body of the present was edited this frame
    states_tag,             \* history: provenance of each timeline entry
    thread_tag,             \* history: provenance of the thread's snapshots
    dropped,                \* history: an in-flight result was discarded
    call,                   \* the last call of a BodyList, step or save operation
    minted                  \* per caller of BodyId::next_id: what fetch_add gave
                            \* it (fetched) and the ids returned to it so far

vars == <<states, current_state, gen_future, step_size, playing, accumulated_time,
          current_state_modified, next_id, world, generation_state, mutex,
          thread, edits, epoch, seed, handed, edited, states_tag, thread_tag,
          dropped, call, minted>>

consumer_vars == <<states, current_state, gen_future, step_size, playing,
                   accumulated_time, current_state_modified, next_id, world,
                   edits, epoch, seed, handed, edited, states_tag, call, minted>>

\* everything but the id counter and the calls under test
world_vars == <<states, current_state, gen_future, step_size, playing,
                accumulated_time, current_state_modified, world, generation_state,
                mutex, thread, edits, epoch, seed, handed, edited, states_tag,
                thread_tag, dropped>>

Worlds == 1..MaxWorlds

\* provenance: the n-th snapshot produced from seed number `epoch`;
\* n = 0 for a snapshot that was not produced (initial, loaded or edited)
Tag(e, n) == [epoch |-> e, n |-> n, inflight |-> FALSE]

NoGeneration ==
    [initial_state |-> None, new_states |-> <<>>, states_buffer_size |-> 0,
     step_size |-> 0]

NoThread == [pc |-> "none", state |-> None, new_state |-> None, step_size |-> 0]

NoThreadTag == [state |-> Tag(0, 0), new_state |-> Tag(0, 0), new_states |-> <<>>]


(***************************************************************************)
(* Construction: World::new and World::from_save                           *)
(***************************************************************************)
\* the GenerationState both constructors build
NewGenerationState_whole(sts, cs, ssz) ==
    [initial_state |-> Some(Clone(Last(sts))),
     new_states |-> <<>>,
     states_buffer_size |-> GenFuture,
     step_size |-> ssz]
NewGenerationState(sts, cs, ssz) ==
    [initial_state |-> Some(Clone(Last(sts))),
     new_states |-> <<>>,
     states_buffer_size |-> saturating_sub(GenFuture, Len(sts) - cs),
     step_size |-> ssz]

\* what World::new(step_size) starts from
NewWorld(ssz) ==
    [states |-> <<UniverseNew(Scale)>>, current_state |-> 0, step_size |-> ssz,
     next_id |-> 1]

NewWorlds == {NewWorld(ssz) : ssz \in StepSizes}

\* the first World, constructed from w, and its thread just spawned
Started(w) ==
        /\ states = w.states
        /\ current_state = w.current_state
        /\ gen_future = GenFuture
        /\ step_size = w.step_size
        /\ playing = FALSE
        /\ accumulated_time = 0
        /\ current_state_modified = FALSE
        /\ next_id = w.next_id
        /\ world = 1
        /\ generation_state =
              [x \in Worlds |-> IF x = 1
                  THEN NewGenerationState(w.states, w.current_state, w.step_size)
                  ELSE NoGeneration]
        /\ mutex = [x \in Worlds |-> "free"]
        /\ thread = [x \in Worlds |-> IF x = 1 THEN [NoThread EXCEPT !.pc = "spawned"]
                                               ELSE NoThread]
        /\ edits = 0
        /\ epoch = 1
        /\ seed = Clone(Last(w.states))
        /\ handed = 0
        /\ edited = FALSE
        /\ states_tag = [i \in 1..Len(w.states) |-> Tag(0, 0)]
        /\ thread_tag = [x \in Worlds |-> NoThreadTag]
        /\ dropped = FALSE

\* no operation called yet, no id minted yet
NoCall == [op |-> "none"]

Callers == 1..MaxCallers

NoMinted == [t \in Callers |-> [fetched |-> None, ids |-> <<>>]]

Init ==
    /\ \E w \in NewWorlds \cup Saves : Started(w)
    /\ call = NoCall
    /\ minted = NoMinted

InitQuiet ==
    /\ \E w \in {NewWorld(ssz) : ssz \in QuietStepSizes} \cup QuietSaves : Started(w)
    /\ call = NoCall
    /\ minted = NoMinted

\* a later World::new or World::from_save: the World it replaces is dropped,
\* the thread spawned for that World keeps its ThreadState alive
ConstructBody(w) ==
    /\ world < MaxWorlds
    /\ states' = w.states
    /\ current_state' = w.current_state
    /\ gen_future' = GenFuture
    /\ step_size' = w.step_size
    /\ playing' = FALSE
    /\ accumulated_time' = 0
    /\ current_state_modified' = FALSE
    /\ next_id' = IF w.next_id > next_id THEN w.next_id ELSE next_id
    /\ world' = world + 1
    /\ generation_state' = [generation_state EXCEPT ![world + 1] =
            NewGenerationState(w.states, w.current_state, w.step_size)]
    /\ thread' = [thread EXCEPT ![world + 1] = [NoThread EXCEPT !.pc = "spawned"]]
    /\ epoch' = epoch + 1
    /\ seed' = Clone(Last(w.states))
    /\ handed' = 0
    /\ edited' = FALSE
    /\ states_tag' = [i \in 1..Len(w.states) |-> Tag(0, 0)]
    /\ UNCHANGED <<mutex, edits, thread_tag, dropped, minted>>

\* a World constructed by a frame that reads no file
Construct(w) ==
    /\ ConstructBody(w)
    /\ UNCHANGED call

WorldNew == \E w \in NewWorlds : Construct(w)

WorldFromSave == \E w \in Saves : Construct(w)

(***************************************************************************)
(* The generation thread of World::spawn_update_thread, for the World w    *)
(***************************************************************************)
HasInflight(tags) == \E i \in 1..Len(tags) : tags[i].inflight

\* the mutex once the guard is dropped with drop(lock), before the step
drop_keeps == "thread"
drop == "free"

\* the buffer after the seed check at the head of the loop
Invalidated_keeps(seeded, buffer) == buffer
Invalidated(seeded, buffer) == IF seeded THEN <<>> ELSE buffer

\* Vec::push of the result onto new_states
push_front(buffer, u) == <<u>> \o buffer
push(buffer, u) == Append(buffer, u)

\* thread start: the first lock()
ThreadStart(w) ==
    /\ thread[w].pc = "spawned"
    /\ mutex[w] = "free"
    /\ mutex' = [mutex EXCEPT ![w] = "thread"]
    /\ thread' = [thread EXCEPT ![w].pc = "loop"]
    /\ UNCHANGED <<consumer_vars, generation_state, thread_tag, dropped>>

\* lock.new_states.len() >= lock.states_buffer_size
buffer_full_late(len, size) == len > size
buffer_full(len, size) == len >= size

\* one pass over the head of the loop, with the lock held: adopt a seed,
\* then either park on the condition variable or release the lock to compute
ThreadLoop(w) ==
    LET gs == generation_state[w]
        seeded == gs.initial_state # None
        buffer == Invalidated(seeded, gs.new_states)
        state == IF seeded THEN gs.initial_state ELSE thread[w].state
        tag == IF seeded THEN Tag(epoch, 0) ELSE thread_tag[w].state
        park == buffer_full(Len(buffer), gs.states_buffer_size) \/ state = None
    IN  /\ thread[w].pc = "loop"
        /\ mutex[w] = "thread"
        /\ generation_state' = [generation_state EXCEPT
                ![w].initial_state = None, ![w].new_states = buffer]
        /\ thread' = [thread EXCEPT
                ![w].state = state,
                ![w].step_size = IF park THEN @ ELSE gs.step_size,
                ![w].pc = IF park THEN "waiting" ELSE "compute"]
        /\ mutex' = [mutex EXCEPT ![w] = IF park THEN "free" ELSE drop]
        /\ thread_tag' = [thread_tag EXCEPT
                ![w].state = tag,
                ![w].new_states = Invalidated(seeded, @),
                ![w].new_state = IF park THEN @
                                 ELSE [tag EXCEPT !.n = @ + 1, !.inflight = FALSE]]
        /\ dropped' = (dropped \/ (seeded /\ HasInflight(thread_tag[w].new_states)))
        /\ UNCHANGED consumer_vars

\* old_state once new_state = old_state.clone() was stepped: step mutates its
\* receiver, which is the clone
stepped_in_place(old_state, dt) == step(old_state, dt)
behind_clone(old_state, dt) == old_state

\* clone the working state and step it, without the lock
ThreadStep(w) ==
    /\ thread[w].pc = "compute"
    /\ thread' = [thread EXCEPT
            ![w].state = Some(behind_clone(thread[w].state[1], thread[w].step_size)),
            ![w].new_state = Some(NextState(thread[w].state[1], thread[w].step_size)),
            ![w].pc = "relock"]
    /\ UNCHANGED <<consumer_vars, generation_state, mutex, thread_tag, dropped>>

\* lock() after the step
ThreadRelock(w) ==
    /\ thread[w].pc = "relock"
    /\ mutex[w] = "free"
    /\ mutex' = [mutex EXCEPT ![w] = "thread"]
    /\ thread' = [thread EXCEPT ![w].pc = "check"]
    /\ UNCHANGED <<consumer_vars, generation_state, thread_tag, dropped>>

\* with the lock again: park when the buffer is full, else push the result
ThreadPush(w) ==
    LET gs == generation_state[w]
        full == buffer_full(Len(gs.new_states), gs.states_buffer_size)
    IN  /\ thread[w].pc = "check"
        /\ mutex[w] = "thread"
        /\ IF full
           THEN /\ thread' = [thread EXCEPT ![w].pc = "waiting"]
                /\ mutex' = [mutex EXCEPT ![w] = "free"]
                /\ dropped' = (dropped \/ thread_tag[w].new_state.inflight)
                /\ UNCHANGED <<generation_state, thread_tag>>
           ELSE /\ generation_state' = [generation_state EXCEPT ![w].new_states =
                        push(@, Clone(thread[w].new_state[1]))]
                /\ thread' = [thread EXCEPT ![w].state = thread[w].new_state,
                                            ![w].pc = "loop"]
                /\ thread_tag' = [thread_tag EXCEPT
                        ![w].new_states = push(@, thread_tag[w].new_state),
                        ![w].state = thread_tag[w].new_state]
                /\ UNCHANGED <<mutex, dropped>>
        /\ UNCHANGED consumer_vars

\* Condvar::wait may return without a notification
ThreadSpuriousWakeup(w) ==
    /\ thread[w].pc = "waiting"
    /\ thread' = [thread EXCEPT ![w].pc = "woken"]
    /\ UNCHANGED <<consumer_vars, generation_state, mutex, thread_tag, dropped>>

\* Condvar::wait returns: the lock is taken again and the loop continues
ThreadWake(w) ==
    /\ thread[w].pc = "woken"
    /\ mutex[w] = "free"
    /\ mutex' = [mutex EXCEPT ![w] = "thread"]
    /\ thread' = [thread EXCEPT ![w].pc = "loop"]
    /\ UNCHANGED <<consumer_vars, generation_state, thread_tag, dropped>>


(***************************************************************************)
(* The interactive loop.  A frame runs move_time, then World::ui and       *)
(* World::world_input (at most one widget or key acts in a frame), then    *)
(* gen_future.  Only gen_future touches what the thread shares, so a frame *)
(* is one step.                                                            *)
(***************************************************************************)
\* the while loop of World::move_time
Advance_past_end(cs, acc, len, ssz) ==
    IF acc >= ssz THEN <<cs + 1, acc - ssz>> ELSE <<cs, acc>>
RECURSIVE Advance(_, _, _, _)
Advance(cs, acc, len, ssz) ==
    IF acc >= ssz /\ cs + 1 < len
    THEN Advance(cs + 1, acc - ssz, len, ssz)
    ELSE <<cs, acc>>

\* World::move_time(dt), e standing for dt * speed: <<current_state, accumulated_time>>
move_time(e) ==
    Advance(current_state, accumulated_time + (IF playing THEN e ELSE 0),
            Len(states), step_size)

\* wall time stops flowing at the bounds of the model
MayElapse(e) ==
    (playing /\ e > 0) =>
        (current_state < MaxPlay /\ accumulated_time + e <= MaxAcc * step_size)

\* the states gen_future keeps when the present was modified
Truncated_long(sts, cs) ==
    SubSeq([sts EXCEPT ![cs + 1].changed = TRUE], 1,
           IF cs + 2 <= Len(sts) THEN cs + 2 ELSE Len(sts))
Truncated(sts, cs) == SubSeq([sts EXCEPT ![cs + 1].changed = TRUE], 1, cs + 1)

\* how many of the tags belong to seed number e
RECURSIVE CountEpoch(_, _)
CountEpoch(tags, e) ==
    IF tags = <<>> THEN 0
    ELSE (IF Head(tags).epoch = e THEN 1 ELSE 0) + CountEpoch(Tail(tags), e)

\* World::gen_future, called with the timeline sts (provenance tags), the
\* present index cs and current_state_modified = modified: re-seed after a
\* modification, else drain; then notify_one.
\* Condvar::notify_one on the thread at pc: a parked thread is woken
notify_lost(pc) == pc
notify_one(pc) == IF pc = "waiting" THEN "woken" ELSE pc

\* gen_future.saturating_sub(states.len() - current_state)
TargetSize_from_start(horizon, len, cs) == saturating_sub(horizon, len)
TargetSize(horizon, len, cs) == saturating_sub(horizon, len - cs)

GenFutureBody(sts, tags, cs, modified) ==
    LET gs == generation_state[world]
        kept == IF modified THEN Truncated(sts, cs) ELSE sts \o gs.new_states
        size == TargetSize(gen_future, Len(kept), cs)
        computing == thread[world].pc \in {"compute", "relock"}
    IN  /\ mutex[world] = "free"
        /\ states' = kept
        /\ current_state' = cs
        /\ current_state_modified' = modified
        /\ generation_state' = [generation_state EXCEPT ![world] =
              IF modified
              THEN [gs EXCEPT !.step_size = step_size,
                              !.states_buffer_size = size,
                              !.initial_state = Some(Clone(Last(kept)))]
              ELSE [gs EXCEPT !.new_states = <<>>,
                              !.states_buffer_size = size]]
        /\ thread' = [thread EXCEPT ![world].pc = notify_one(@)]
        /\ IF modified
           THEN /\ states_tag' = SubSeq(tags, 1, cs + 1)
                /\ epoch' = epoch + 1
                /\ seed' = Clone(Last(kept))
                /\ handed' = 0
                /\ thread_tag' = [thread_tag EXCEPT ![world].new_state.inflight =
                                        (@ \/ computing)]
           ELSE /\ states_tag' = tags \o thread_tag[world].new_states
                /\ handed' = handed + CountEpoch(thread_tag[world].new_states, epoch)
                /\ thread_tag' = [thread_tag EXCEPT ![world].new_states = <<>>]
                /\ UNCHANGED <<epoch, seed>>
        /\ UNCHANGED <<gen_future, step_size, world, mutex, dropped, minted>>

\* World::gen_future in a frame that writes no file
gen_future_(sts, tags, cs, modified) ==
    /\ GenFutureBody(sts, tags, cs, modified)
    /\ UNCHANGED call

\* a frame in which no widget is used
FrameIdle(e) ==
    /\ MayElapse(e)
    /\ accumulated_time' = move_time(e)[2]
    /\ gen_future_(states, states_tag, move_time(e)[1], FALSE)
    /\ edited' = FALSE
    /\ UNCHANGED <<playing, next_id, edits>>

\* the time slider is dragged to index k
FrameSlider(e, k) ==
    /\ MayElapse(e)
    /\ k <= MaxPlay
    /\ k # move_time(e)[1]
    /\ accumulated_time' = move_time(e)[2]
    /\ gen_future_(states, states_tag, k, FALSE)
    /\ edited' = FALSE
    /\ UNCHANGED <<playing, next_id, edits>>

\* the Play / Pause button
FrameTogglePlay(e) ==
    /\ MayElapse(e)
    /\ accumulated_time' = move_time(e)[2]
    /\ playing' = ~playing
    /\ gen_future_(states, states_tag, move_time(e)[1], FALSE)
    /\ edited' = FALSE
    /\ UNCHANGED <<next_id, edits>>

\* the Delete Past button
FrameDeletePast(e) ==
    LET cs == move_time(e)[1]
    IN  /\ MayElapse(e)
        /\ edits < MaxEdits
        /\ cs > 0
        /\ accumulated_time' = move_time(e)[2]
        /\ gen_future_(SubSeq(states, cs + 1, Len(states)),
                       SubSeq(states_tag, cs + 1, Len(states)), 0, FALSE)
        /\ edited' = FALSE
        /\ edits' = edits + 1
        /\ UNCHANGED <<playing, next_id>>

\* the Delete Future button
FrameDeleteFuture(e) ==
    /\ MayElapse(e)
    /\ edits < MaxEdits
    /\ accumulated_time' = move_time(e)[2]
    /\ gen_future_(states, states_tag, move_time(e)[1], TRUE)
    /\ edited' = FALSE
    /\ edits' = edits + 1
    /\ UNCHANGED <<playing, next_id>>

\* a frame in which the present snapshot is edited and left with the bodies bs
FrameEdit(e, bs) ==
    LET cs == move_time(e)[1]
    IN  /\ MayElapse(e)
        /\ edits < MaxEdits
        /\ accumulated_time' = move_time(e)[2]
        /\ gen_future_([states EXCEPT ![cs + 1].bodies = bs],
                       [states_tag EXCEPT ![cs + 1].n = 0], cs, TRUE)
        /\ edited' = TRUE
        /\ edits' = edits + 1
        /\ UNCHANGED playing

\* the bodies of the snapshot the frame shows after move_time(e)
Shown(e) == states[move_time(e)[1] + 1].bodies

\* the velocity field of the Selected Body window (disabled while playing)
FrameEditBody(e, id, v) ==
    LET k == IndexOf(Shown(e), id)
    IN  /\ ~playing
        /\ k # 0
        /\ Shown(e)[k].body.vel[1] # v
        /\ FrameEdit(e, [Shown(e) EXCEPT ![k].body.vel[1] = v])
        /\ UNCHANGED next_id

\* the Delete key on the selected body
FrameDeleteBody(e, id) ==
    /\ IndexOf(Shown(e), id) # 0
    /\ FrameEdit(e, BodyListRemove(Shown(e), id))
    /\ UNCHANGED next_id

\* World::world_input: a middle click adds a body (not while playing)
FrameAddBody(e, pos) ==
    /\ ~playing
    /\ Len(Shown(e)) < MaxBodies
    /\ FrameEdit(e, BodyListPush(Shown(e), next_id, NewBody(pos)))
    /\ next_id' = next_id + 1

(***************************************************************************)
(* Save::serialize                                                         *)
(***************************************************************************)
\* BodyListSerialiser: each body with the number of its id
BodyListSerialiser(body_list) ==
    [i \in 1..Len(body_list) |-> <<body_list[i].id, body_list[i].body>>]

UniverseSerializer(index, universe) ==
    [index |-> index, gravity |-> universe.gravity,
     bodies |-> BodyListSerialiser(universe.bodies)]

\* StatesSerializer: enumerate().filter_map over the entries from the i-th on
RECURSIVE StatesSerializer(_, _)
StatesSerializer(sts, i) ==
    IF i > Len(sts) THEN <<>>
    ELSE (IF sts[i].changed THEN <<UniverseSerializer(i - 1, sts[i])>> ELSE <<>>)
            \o StatesSerializer(sts, i + 1)

\* Save::serialize: the "states" field, or the panic of the assertion
serialize(sts) ==
    IF ~sts[1].changed
    THEN [panicked |-> TRUE, states |-> <<>>]
    ELSE [panicked |-> FALSE, states |-> StatesSerializer(sts, 1)]

\* a frame in which Save is clicked: World::to_save borrows the timeline as
\* the frame finds it
FrameSave(e) ==
    /\ MayElapse(e)
    /\ accumulated_time' = move_time(e)[2]
    /\ call' = [op |-> "save", states |-> states,
                current_state |-> move_time(e)[1], step_size |-> step_size,
                file |-> serialize(states).states,
                panicked |-> serialize(states).panicked]
    /\ GenFutureBody(states, states_tag, move_time(e)[1], FALSE)
    /\ edited' = FALSE
    /\ UNCHANGED <<playing, next_id, edits>>

(***************************************************************************)
(* BodyId::next_id, called from the threads in Callers                     *)
(***************************************************************************)
\* AtomicUsize::fetch_add(1): the counter afterwards (it wraps around)
fetch_add_stuck(counter) == counter
fetch_add(counter) == (counter + 1) % (2 ^ UsizeBits)

Aborted == call.op = "abort"

\* ID.fetch_add(1, Ordering::Relaxed), one atomic step
NextIdFetch(t) ==
    /\ ~Aborted
    /\ minted[t].fetched = None
    /\ minted' = [minted EXCEPT ![t].fetched = Some(next_id)]
    /\ next_id' = fetch_add(next_id)
    /\ UNCHANGED <<world_vars, call>>

\* NonZeroUsize::new gave Some(next_id): Self(next_id) is returned
NextIdReturn(t) ==
    /\ ~Aborted
    /\ minted[t].fetched # None
    /\ minted[t].fetched[1] # 0
    /\ minted' = [minted EXCEPT ![t].fetched = None,
                                ![t].ids = Append(@, minted[t].fetched[1])]
    /\ UNCHANGED <<world_vars, call, next_id>>

\* NonZeroUsize::new gave None: std::process::abort()
NextIdAbort(t) ==
    /\ ~Aborted
    /\ minted[t].fetched = Some(0)
    /\ call' = [op |-> "abort"]
    /\ UNCHANGED <<world_vars, minted, next_id>>

(***************************************************************************)
(* The operations of one BodyList, called one after the other              *)
(***************************************************************************)
BodyValues == {NewBody(<<0, 0>>), NewBody(<<Scale, 0>>)}

Ids == 1..MaxId

\* the [Option<BodyId>; 2] of World::ui: selected and focused
IdLists == [1..2 -> {None} \cup {Some(i) : i \in Ids}]

\* the record of a call on the list the last call left
Called(op, id, body, ids, result, after) ==
    [op |-> op, bodies |-> call.after, id |-> id, body |-> body, ids |-> ids,
     result |-> result, after |-> after, panicked |-> FALSE]

\* the process has not panicked
Alive == ~call.panicked

Insert(id, body) ==
    LET r == BodyListInsert(call.after, id, body)
    IN  /\ Alive
        /\ id < next_id \/ next_id = 0
        /\ Len(call.after) < MaxStore \/ IndexOf(call.after, id) # 0
        /\ call' = IF r = Panic
                   THEN [Called("insert", id, body, <<>>, <<>>, call.after)
                            EXCEPT !.panicked = TRUE]
                   ELSE Called("insert", id, body, <<>>, <<>>, r)
        /\ UNCHANGED <<world_vars, next_id, minted>>

\* push mints its id first: the counter is followed up to MaxId and through
\* its wrap, where BodyId::next_id aborts
Push(body) ==
    /\ Alive
    /\ next_id <= MaxId \/ next_id = 2 ^ UsizeBits - 1
    /\ Len(call.after) < MaxStore
    /\ call' = IF next_id = 0
               THEN [Called("push", 0, body, <<>>, <<>>, call.after)
                        EXCEPT !.panicked = TRUE]
               ELSE Called("push", next_id, body, <<>>, <<next_id>>,
                           BodyListPush(call.after, next_id, body))
    /\ next_id' = fetch_add(next_id)
    /\ UNCHANGED <<world_vars, minted>>

Remove(id) ==
    /\ Alive
    /\ call' = Called("remove", id, <<>>, <<>>, BodyListRemoved(call.after, id),
                      BodyListRemove(call.after, id))
    /\ UNCHANGED <<world_vars, next_id, minted>>

Get(id) ==
    /\ Alive
    /\ call' = Called("get", id, <<>>, <<>>, BodyListGet(call.after, id), call.after)
    /\ UNCHANGED <<world_vars, next_id, minted>>

GetMut(id) ==
    /\ Alive
    /\ call' = Called("get_mut", id, <<>>, <<>>, BodyListGetMut(call.after, id),
                      call.after)
    /\ UNCHANGED <<world_vars, next_id, minted>>

IterMutPairs ==
    /\ Alive
    /\ call' = Called("iter_mut_pairs", 0, <<>>, <<>>, PairIds(call.after), call.after)
    /\ UNCHANGED <<world_vars, next_id, minted>>

MaybeGetDisjointMut(ids) ==
    /\ Alive
    /\ call' = Called("maybe_get_disjoint_mut", 0, <<>>, ids,
                      maybe_get_disjoint_mut(call.after, ids), call.after)
    /\ UNCHANGED <<world_vars, next_id, minted>>

(***************************************************************************)
(* Save::deserialize                                                       *)
(* A load in progress is the record r: the timeline built so far, the map  *)
(* id_to_body_id, the counter of BodyId::next_id and whether it panicked.  *)
(***************************************************************************)
\* id_to_body_id.entry(key).or_insert_with(BodyId::next_id)
entry_always_mints(r, key) ==
    IF r.next_id = 0
    THEN [r EXCEPT !.panicked = TRUE, !.next_id = fetch_add(r.next_id)]
    ELSE [r EXCEPT !.ids = [k \in DOMAIN r.ids \cup {key} |->
                                IF k = key THEN r.next_id ELSE r.ids[k]],
                   !.next_id = fetch_add(r.next_id)]
entry(r, key) ==
    IF key \in DOMAIN r.ids THEN r
    ELSE IF r.next_id = 0
    THEN [r EXCEPT !.panicked = TRUE, !.next_id = fetch_add(r.next_id)]
    ELSE [r EXCEPT !.ids = [k \in DOMAIN r.ids \cup {key} |->
                                IF k = key THEN r.next_id ELSE r.ids[k]],
                   !.next_id = fetch_add(r.next_id)]

\* the bodies of one entry, each inserted under the BodyId of its key
RECURSIVE InsertAll(_, _, _, _)
InsertAll(r, bodies, pairs, k) ==
    IF k > Len(pairs) THEN [r |-> r, bodies |-> bodies]
    ELSE LET minted_ == entry(r, pairs[k][1])
         IN  IF minted_.panicked THEN [r |-> minted_, bodies |-> bodies]
             ELSE IF binary_search_by_key(bodies, minted_.ids[pairs[k][1]]).found
             THEN [r |-> [minted_ EXCEPT !.panicked = TRUE], bodies |-> bodies]
             ELSE InsertAll(minted_,
                            BodyListInsert(bodies, minted_.ids[pairs[k][1]], pairs[k][2]),
                            pairs, k + 1)

\* the snapshots stepped after one entry
RECURSIVE Restepped(_, _, _)
Restepped(u, dt, n) ==
    IF n = 0 THEN <<>> ELSE <<NextState(u, dt)>> \o Restepped(NextState(u, dt), dt, n - 1)

\* how many snapshots are stepped after the entry i
step_count(file, i, cs) ==
    saturating_sub(IF i < Len(file) THEN file[i + 1].index ELSE cs, file[i].index)

\* the while loop over the entries of the file, from the i-th on
RECURSIVE DeserializeFrom(_, _, _, _, _)
DeserializeFrom(file, i, cs, dt, r) ==
    IF i > Len(file) THEN r
    ELSE LET inserted == InsertAll(r, <<>>, file[i].bodies, 1)
             new_universe == [bodies |-> inserted.bodies, gravity |-> file[i].gravity,
                              changed |-> TRUE]
         IN  IF inserted.r.panicked THEN inserted.r
             ELSE DeserializeFrom(file, i + 1, cs, dt,
                      [inserted.r EXCEPT !.states = @ \o <<new_universe>>
                            \o Restepped(new_universe, dt, step_count(file, i, cs))])

\* Save::deserialize of a file with the data current_state = cs and
\* step_size = dt, in a process whose id counter stands at counter
deserialize(file, cs, dt, counter) ==
    LET r == [states |-> <<>>, ids |-> <<>>, next_id |-> counter, panicked |-> FALSE]
    IN  IF Len(file) = 0 THEN [r EXCEPT !.panicked = TRUE]
        ELSE IF file[1].index # 0 THEN [r EXCEPT !.panicked = TRUE]
        ELSE DeserializeFrom(file, 1, cs, dt, r)

\* the snapshot of SavedUniverse with Green set moving
SavedEdited == [SavedUniverse EXCEPT !.bodies[2].body.vel = <<0, Scale>>]

\* a file saved with the present at index 1, where an edit was made
EditedFile == <<UniverseSerializer(0, SavedUniverse), UniverseSerializer(1, SavedEdited)>>

\* the Worlds loaded from files by a fresh process: one entry, or two entries
\* of which the second is an edit
LoadedSaves ==
    Saves \cup {[states |-> deserialize(EditedFile, 1, Scale, 1).states,
                 current_state |-> 1, step_size |-> Scale, next_id |-> 3]}

\* a file saved with the present back at index 0 after an edit made
\* GenFuture steps ahead
AheadFile ==
    <<UniverseSerializer(0, SavedUniverse), UniverseSerializer(GenFuture, SavedEdited)>>

\* the World loaded from AheadFile by a fresh process
AheadSave ==
    [states |-> deserialize(AheadFile, 0, Scale, 1).states, current_state |-> 0,
     step_size |-> Scale, next_id |-> 3]

\* the timelines of n snapshots that start at SavedUniverse: each later
\* snapshot is stepped from the one before it and is then edited or not
RECURSIVE TimelinesOf(_)
TimelinesOf(n) ==
    IF n = 1 THEN {<<SavedUniverse>>}
    ELSE UNION {{Append(t, NextState(Last(t), Scale)),
                 Append(t, [NextState(Last(t), Scale) EXCEPT
                                !.changed = TRUE,
                                !.bodies[2].body.vel = <<0, Scale>>])} :
                t \in TimelinesOf(n - 1)}

\* the Worlds that are saved: a timeline and a present in it
TimelineWorlds ==
    UNION {{[states |-> t, current_state |-> cs, step_size |-> Scale, next_id |-> 3] :
               cs \in 0..(Len(t) - 1)} :
           t \in UNION {TimelinesOf(n) : n \in 1..MaxTimeline}}

\* the numeric keys of the bodies in a file
Keys == {2, 5}

\* the body lists of a file entry: none, one or two bodies under keys
FileBodies ==
    {<<<<k, SavedUniverse.bodies[1].body>>>> : k \in Keys}
        \cup {<<<<k1, SavedUniverse.bodies[1].body>>,
                 <<k2, SavedUniverse.bodies[2].body>>>> : k1 \in Keys, k2 \in Keys}

FileEntries ==
    [index : 0..2, gravity : {Scale}, bodies : FileBodies]

\* the files on disk: no entry, one entry at index 0 or 1, or an entry at
\* index 0 and a later one, each of the two with two bodies
Files ==
    {<<>>} \cup {<<e>> : e \in {x \in FileEntries : x.index < 2}}
           \cup {<<e1, e2>> :
                    e1 \in {x \in FileEntries : x.index = 0 /\ Len(x.bodies) = 2},
                    e2 \in {x \in FileEntries : x.index = 2 /\ Len(x.bodies) = 2}}

\* the process is running: no panic has ended it
Running == ~(call.op = "load" /\ call.panicked)

\* a file is loaded: Save::deserialize, then World::from_save with its result
Load(file, cs, dt, saved) ==
    LET r == deserialize(file, cs, dt, next_id)
    IN  /\ Running
        /\ call' = [op |-> "load", file |-> file, current_state |-> cs,
                    saved |-> saved, before |-> states, counter |-> next_id,
                    loaded |-> r.states, ids |-> r.ids, panicked |-> r.panicked]
        /\ IF r.panicked
           THEN /\ next_id' = r.next_id
                /\ UNCHANGED world_vars
           ELSE ConstructBody([states |-> r.states, current_state |-> cs,
                               step_size |-> dt, next_id |-> r.next_id])
        /\ UNCHANGED minted

\* a file found on disk is loaded
LoadFile == \E file \in Files, cs \in {0, 2} : Load(file, cs, Scale, <<>>)

\* the file the last save wrote is loaded
LoadSaved ==
    /\ call.op = "save"
    /\ ~call.panicked
    /\ Load(call.file, call.current_state, call.step_size, call.states)

(***************************************************************************)
(* Universe::step on snapshots of up to three bodies, some at one place    *)
(***************************************************************************)
\* where the bodies of a stepped snapshot are
StepPositions == {<<0, 0>>, <<Scale, 0>>, <<0, 2 * Scale>>}

\* the body with the id i: the bodies differ in name, radius, density and color
StepBody(i, pos) ==
    [id |-> i,
     body |-> [name |-> <<"Red", "Green", "Blue">>[i], pos |-> pos, vel |-> <<0, 0>>,
               radius |-> i * Scale, density |-> Scale \div i,
               color |-> <<Scale \div i, 0, Scale>>]]

StepLists ==
    UNION {{[i \in 1..n |-> StepBody(i, ps[i])] : ps \in [1..n -> StepPositions]} :
           n \in 0..3}

StepUniverses ==
    [bodies : StepLists, gravity : {Scale, 2 * Scale}, changed : BOOLEAN]

\* a snapshot is stepped once
UniverseStep(u, dt) ==
    /\ call' = [op |-> "universe_step", universe |-> u, dt |-> dt, after |-> step(u, dt)]
    /\ UNCHANGED <<world_vars, next_id, minted>>

(***************************************************************************)
(* Universe::step in exact arithmetic: a number is a fraction <<num, den>> *)
(* in lowest terms with den > 0, so that values such as 1/128 are exact.   *)
(* <<0, 0>> stands for NaN (a division by zero).                           *)
(***************************************************************************)
RECURSIVE GCD(_, _)
GCD(a, b) == IF b = 0 THEN a ELSE GCD(b, a % b)

QNaN == <<0, 0>>

\* n / d in lowest terms
Q(n, d) ==
    IF d = 0 THEN QNaN
    ELSE LET g == GCD(Abs(n), Abs(d))
         IN  IF d < 0 THEN <<(-n) \div g, (-d) \div g>> ELSE <<n \div g, d \div g>>

QMul(a, b) == Q(a[1] * b[1], a[2] * b[2])

QDiv(a, b) == Q(a[1] * b[2], a[2] * b[1])

QAdd(a, b) == Q(a[1] * b[2] + b[1] * a[2], a[2] * b[2])

QSub(a, b) == Q(a[1] * b[2] - b[1] * a[2], a[2] * b[2])

\* the square root of a fraction whose numerator and denominator are squares
QSqrt(a) ==
    IF \E n \in 0..a[1], d \in 0..a[2] : n * n = a[1] /\ d * d = a[2]
    THEN Q(CHOOSE n \in 0..a[1] : n * n = a[1], CHOOSE d \in 0..a[2] : d * d = a[2])
    ELSE QNaN

QVAdd(a, b) == <<QAdd(a[1], b[1]), QAdd(a[2], b[2])>>

QVSub(a, b) == <<QSub(a[1], b[1]), QSub(a[2], b[2])>>

QVScale(a, k) == <<QMul(a[1], k), QMul(a[2], k)>>

Qmagnitude2_unsquared(a) == QSqrt(QAdd(QMul(a[1], a[1]), QMul(a[2], a[2])))
Qmagnitude2(a) == QAdd(QMul(a[1], a[1]), QMul(a[2], a[2]))

Qmagnitude(a) == QSqrt(Qmagnitude2(a))

Qnormalize(a) == <<QDiv(a[1], Qmagnitude(a)), QDiv(a[2], Qmagnitude(a))>>

\* std::f64::consts::PI, as a fraction
QPI == <<355, 113>>

\* Body::mass
Qmass(body) == QMul(QMul(body.density, QPI), QMul(body.radius, body.radius))

\* the closure of Universe::step applied to the pair (i, j)
QAttract(bodies, gravity, dt, i, j) ==
    LET a == bodies[i].body
        b == bodies[j].body
        a_to_b == QVSub(b.pos, a.pos)
        dist2 == Qmagnitude2(a_to_b)
        dir == Qnormalize(a_to_b)
        da == QVScale(QVScale(dir, QDiv(QMul(gravity, Qmass(b)), dist2)), dt)
        db == QVScale(QVScale(dir, QDiv(QMul(gravity, Qmass(a)), dist2)), dt)
    IN  [bodies EXCEPT ![i].body.vel = QVAdd(a.vel, da),
                       ![j].body.vel = QVSub(b.vel, db)]

RECURSIVE QAttractAll(_, _, _, _, _)
QAttractAll(bodies, gravity, dt, pairs, k) ==
    IF k > Len(pairs) THEN bodies
    ELSE QAttractAll(QAttract(bodies, gravity, dt, pairs[k][1], pairs[k][2]),
                     gravity, dt, pairs, k + 1)

\* the second loop of Universe::step
QIntegrate(bodies, dt) ==
    [i \in 1..Len(bodies) |->
        [bodies[i] EXCEPT !.body.pos = QVAdd(bodies[i].body.pos,
                                             QVScale(bodies[i].body.vel, dt))]]

\* Universe::step
Qstep(u, dt) ==
    [u EXCEPT !.bodies = QIntegrate(QAttractAll(u.bodies, u.gravity, dt,
                                                iter_mut_pairs(Len(u.bodies)), 1), dt)]

\* a body of radius 1 at (x, 0) with velocity (vx, 0)
QBody(name, x, vx, density) ==
    [name |-> name, pos |-> <<x, Q(0, 1)>>, vel |-> <<vx, Q(0, 1)>>,
     radius |-> Q(1, 1), density |-> density, color |-> <<1, 1, 1>>]

\* two bodies A and B on the x axis, at -d and d
TwoBodies(d, va, density_a, density_b, gravity) ==
    [bodies |-> <<[id |-> 1, body |-> QBody("A", Q(-d, 1), va, density_a)],
                  [id |-> 2, body |-> QBody("B", Q(d, 1), Q(0, 1), density_b)]>>,
     gravity |-> gravity, changed |-> TRUE]

\* density of a body of radius 1 and the mass m
DensityOfMass(m) == QDiv(Q(m, 1), QPI)

Scenarios ==
    {TwoBodies(d, va, DensityOfMass(ma), DensityOfMass(mb), Q(g, 1)) :
        d \in {1, 2, 5}, va \in {Q(0, 1), Q(1, 1)}, ma \in {1, 2}, mb \in {1, 2},
        g \in {1, 2}}

TimeSteps == {Q(1, 128), Q(1, 64), Q(1, 1)}

\* a snapshot is stepped once
StepScenario(u, dt) ==
    /\ call' = [op |-> "step", universe |-> u, dt |-> dt, after |-> Qstep(u, dt)]
    /\ UNCHANGED <<world_vars, next_id, minted>>

(***************************************************************************)
(* Specifications                                                          *)
(***************************************************************************)
Thread(w) ==
    \/ ThreadStart(w)
    \/ ThreadLoop(w)
    \/ ThreadStep(w)
    \/ ThreadRelock(w)
    \/ ThreadPush(w)
    \/ ThreadSpuriousWakeup(w)
    \/ ThreadWake(w)

\* what the thread does by itself, a spurious wakeup left out
ThreadRuns(w) ==
    \/ ThreadStart(w)
    \/ ThreadLoop(w)
    \/ ThreadStep(w)
    \/ ThreadRelock(w)
    \/ ThreadPush(w)
    \/ ThreadWake(w)

Frame(e) ==
    \/ FrameIdle(e)
    \/ \E k \in 0..(Len(states) - 1) : FrameSlider(e, k)
    \/ FrameTogglePlay(e)
    \/ FrameDeletePast(e)
    \/ FrameDeleteFuture(e)
    \/ \E id \in 1..(next_id - 1), v \in VelocityInputs : FrameEditBody(e, id, v)
    \/ \E id \in 1..(next_id - 1) : FrameDeleteBody(e, id)
    \/ \E pos \in MousePositions : FrameAddBody(e, pos)

FrameStep == \E e \in Elapsed : Frame(e)

Next ==
    \/ \E w \in Worlds : Thread(w)
    \/ FrameStep

\* one World, driven by the thread and by frames
Spec == Init /\ [][Next]_vars

NextWorlds ==
    \/ \E w \in Worlds : Thread(w)
    \/ \E e \in Elapsed : FrameIdle(e)
    \/ WorldNew
    \/ WorldFromSave

\* Worlds constructed one after the other (New, Load), each with its thread,
\* and frames of the live World in which no widget is used
SpecWorlds == Init /\ [][NextWorlds]_vars

NextQuiet ==
    \/ \E w \in Worlds : Thread(w)
    \/ \E e \in Elapsed : FrameIdle(e)

\* no widget is ever used: the thread runs whenever it can, frames recur and
\* get the mutex
SpecQuiet ==
    /\ InitQuiet
    /\ [][NextQuiet]_vars
    /\ \A w \in Worlds : WF_vars(ThreadRuns(w))
    /\ SF_vars(\E e \in Elapsed : FrameIdle(e))

NextPlay ==
    \/ \E w \in Worlds : Thread(w)
    \/ \E e \in Elapsed : FrameIdle(e)
    \/ \E e \in Elapsed : FrameTogglePlay(e)

\* the timeline is played and nothing is edited: the thread runs whenever it
\* can, frames recur and get the mutex
SpecPlay ==
    /\ Init
    /\ [][NextPlay]_vars
    /\ \A w \in Worlds : WF_vars(ThreadRuns(w))
    /\ SF_vars(\E e \in Elapsed : FrameIdle(e))

NextForward ==
    \/ \E w \in Worlds : Thread(w)
    \/ \E e \in Elapsed : FrameIdle(e)
    \/ \E e \in Elapsed : FrameTogglePlay(e)
    \/ \E e \in Elapsed : FrameDeleteFuture(e)
    \/ \E e \in Elapsed : \E id \in 1..(next_id - 1), v \in VelocityInputs :
            FrameEditBody(e, id, v)
    \/ \E e \in Elapsed : \E id \in 1..(next_id - 1) : FrameDeleteBody(e, id)
    \/ \E e \in Elapsed : \E pos \in MousePositions : FrameAddBody(e, pos)

\* the frames that never move the present back: the time slider and Delete
\* Past are not used
InitForward ==
    /\ \E w \in NewWorlds \cup Saves \cup {AheadSave} : Started(w)
    /\ call = NoCall
    /\ minted = NoMinted

SpecForward == InitForward /\ [][NextForward]_vars

NextIds ==
    \E t \in Callers :
        \/ NextIdFetch(t)
        \/ NextIdReturn(t)
        \/ NextIdAbort(t)

\* the id counter alone, from the start of the process
InitIds ==
    /\ Started(NewWorld(Scale))
    /\ call = NoCall
    /\ minted = NoMinted

SpecIds == InitIds /\ [][NextIds]_vars

NextStep == \E u \in StepUniverses, dt \in {Scale \div 2, Scale} : UniverseStep(u, dt)

\* Universe::step applied to snapshots of up to three bodies
SpecStep == InitIds /\ [][NextStep]_vars

NextStore ==
    \/ \E id \in Ids, body \in BodyValues : Insert(id, body)
    \/ \E body \in BodyValues : Push(body)
    \/ \E id \in Ids : Remove(id)
    \/ \E id \in Ids : Get(id)
    \/ \E id \in Ids : GetMut(id)
    \/ IterMutPairs
    \/ \E ids \in IdLists : MaybeGetDisjointMut(ids)

\* BodyList::new(), after the ids 1 and 2 were minted, or every id but the
\* last one before the counter wraps
InitStore ==
    /\ \E counter \in {3, 2 ^ UsizeBits - 1} :
          Started([NewWorld(Scale) EXCEPT !.next_id = counter])
    /\ call = [op |-> "new", bodies |-> <<>>, id |-> 0, body |-> <<>>, ids |-> <<>>,
               result |-> <<>>, after |-> <<>>, panicked |-> FALSE]
    /\ minted = NoMinted

\* one BodyList and the calls made on it
SpecStore == InitStore /\ [][NextStore]_vars

NextSave ==
    \/ \E w \in Worlds : Thread(w)
    \/ \E e \in Elapsed : FrameIdle(e)
    \/ \E e \in Elapsed : FrameTogglePlay(e)
    \/ \E e \in Elapsed : FrameDeletePast(e)
    \/ \E e \in Elapsed : FrameDeleteFuture(e)
    \/ \E e \in Elapsed : FrameSave(e)

InitSave ==
    /\ \E w \in NewWorlds \cup LoadedSaves : Started(w)
    /\ call = NoCall
    /\ minted = NoMinted

\* a World, new or loaded from a file, that is played, cut and saved
SpecSave == InitSave /\ [][NextSave]_vars

NextRoundTrip ==
    \/ \E e \in Elapsed : Running /\ FrameSave(e)
    \/ LoadSaved

InitRoundTrip ==
    /\ \E w \in TimelineWorlds : Started(w)
    /\ call = NoCall
    /\ minted = NoMinted

\* Worlds with a timeline of up to MaxTimeline snapshots that are saved and
\* loaded again
SpecRoundTrip == InitRoundTrip /\ [][NextRoundTrip]_vars

\* a World, new or loaded, into which files found on disk are loaded
SpecFiles == InitSave /\ [][LoadFile]_vars

NextScenario == \E u \in Scenarios, dt \in TimeSteps : StepScenario(u, dt)

\* Universe::step applied to two-body snapshots
SpecScenario == InitIds /\ [][NextScenario]_vars

(***************************************************************************)
(* Properties of the generation pipeline                                   *)
(***************************************************************************)
GS == generation_state[world]

Present == states[current_state + 1]

\* C1: every timeline entry that is derived (not marked changed) is the
\* physics step of the entry before it.
C1_DerivedIsStepOfPrevious ==
    \A i \in 1..(Len(states) - 1) :
        ~states[i + 1].changed => states[i + 1] = NextState(states[i], step_size)

\* C2: once the thread has taken the seed S (initial_state is empty again),
\* everything in the buffer was produced from S: the i-th buffered snapshot
\* is S stepped (handed + i) times, so the first one drained after the
\* re-seed is step(S, step_size).
C2_NoStaleAfterSeedObserved ==
    GS.initial_state = None =>
        \A i \in 1..Len(GS.new_states) :
            /\ thread_tag[world].new_states[i].epoch = epoch
            /\ GS.new_states[i] = StepN(seed, GS.step_size, handed + i)

\* C2 witness: the consumer re-seeded while a step was in flight, the thread
\* took the seed, discarded the stale output and has buffered the first
\* snapshot produced from the seed, not drained yet.
C2_Witness ==
    /\ epoch >= 2
    /\ dropped
    /\ GS.initial_state = None
    /\ handed = 0
    /\ Len(GS.new_states) >= 1
    /\ mutex[world] = "free"

\* C3: the result of a step that was being computed when the consumer
\* re-seeded never becomes a timeline entry.
C3_InflightResultDropped ==
    \A i \in 1..Len(states_tag) : ~states_tag[i].inflight

\* C3 witness: a result that was in flight during a re-seed has been
\* discarded by the thread, and frames have drained since.
C3_Witness ==
    /\ dropped
    /\ thread_tag[world].state.epoch = epoch
    /\ Len(states) > current_state + 1


\* C4 as claimed: with no edits and fair scheduling the timeline eventually
\* has GenFuture + 1 entries, entry i being the initial snapshot stepped i
\* times.
C4_ReachesHorizonPlusOne ==
    <>(/\ Len(states) = GenFuture + 1
       /\ \A i \in 1..Len(states) : states[i] = StepN(states[1], step_size, i - 1))

\* C4 amended: with no edits and fair scheduling the timeline settles at
\* GenFuture entries (the original and GenFuture - 1 produced ones), entry i
\* being the initial snapshot stepped i times, each produced exactly once.
C4_SettlesAtHorizon ==
    <>[](/\ Len(states) = GenFuture
         /\ \A i \in 1..Len(states) :
               /\ states[i] = StepN(states[1], step_size, i - 1)
               /\ states_tag[i].n = i - 1)

\* C4 witness: the timeline is full and the thread is parked on an empty buffer.
C4_Witness ==
    /\ Len(states) = GenFuture
    /\ current_state = 0
    /\ GS.new_states = <<>>
    /\ GS.states_buffer_size = 0
    /\ thread[world].pc = "waiting"

\* C5: two produced snapshots of the same seed are in the timeline in
\* production order, and the later one is the earlier one stepped forward.
C5_ProducedInOrder ==
    \A i, j \in 1..Len(states) :
        (/\ i < j
         /\ states_tag[i].epoch = states_tag[j].epoch
         /\ states_tag[i].n >= 1
         /\ states_tag[j].n >= 1)
        => /\ states_tag[i].n < states_tag[j].n
           /\ Clone(states[j]) =
                 StepN(states[i], step_size, states_tag[j].n - states_tag[i].n)

\* C5 witness: two snapshots of one seed that sat in the buffer together
\* are in the timeline, after a later drain added a third.
C5_Witness ==
    /\ Len(states) >= 4
    /\ \A i \in 2..4 : states_tag[i].n = i - 1 /\ states_tag[i].epoch = epoch
    /\ GS.states_buffer_size = 0

\* C6: the thread does not hold the mutex while it steps, and every frame
\* either re-seeds or drains, then leaves the thread notified (not parked).
C6_FrameReseedsOrDrains ==
    LET gs == generation_state[world]
        gs2 == generation_state'[world]
    IN  /\ thread'[world].pc # "waiting"
        /\ IF current_state_modified'
           THEN /\ gs2.initial_state = Some(Clone(Last(states')))
                /\ gs2.new_states = gs.new_states
           ELSE /\ gs2.initial_state = gs.initial_state
                /\ gs2.new_states = <<>>
                /\ Len(states') >= Len(gs.new_states)
                /\ SubSeq(states', Len(states') - Len(gs.new_states) + 1,
                          Len(states')) = gs.new_states

C6_StepOutsideLock ==
    /\ [](\A w \in Worlds : thread[w].pc \in {"compute", "relock"} => mutex[w] = "free")
    /\ [][FrameStep => C6_FrameReseedsOrDrains]_vars

\* C6 witness: a frame ran (and re-seeded) while the thread was stepping.
C6_Witness ==
    /\ thread[world].pc \in {"compute", "relock"}
    /\ thread_tag[world].new_state.inflight
    /\ GS.initial_state # None
    /\ mutex[world] = "free"

\* C7: at most one generation thread is computing a step at any moment.
C7_AtMostOneComputing ==
    Cardinality({w \in Worlds : thread[w].pc = "compute"}) <= 1

\* C8: a frame that modified the present (index k) leaves k + 1 entries, the
\* entries before k as they were, the entry at k marked changed, and the
\* seed a clone of the entry at k.
C8_Truncation ==
    [][(FrameStep /\ current_state_modified') =>
          /\ Len(states') = current_state' + 1
          /\ \A i \in 1..current_state' : states'[i] = states[i]
          /\ states'[current_state' + 1].changed
          /\ generation_state'[world].initial_state =
                Some(Clone(states'[current_state' + 1]))]_vars

\* C8 witness: an edit of a present snapshot that is not the first one has
\* cut the timeline behind it.
C8_Witness ==
    /\ current_state_modified
    /\ edited
    /\ current_state >= 1
    /\ Len(states) = current_state + 1
    /\ GS.initial_state = Some(Clone(Present))

\* C9: the timeline is never empty and its first snapshot is marked changed.
C9_FirstIsChanged ==
    /\ Len(states) >= 1
    /\ states[1].changed

\* how far a frame shifted the entries it kept (Delete Past)
Shift == Len(states) + Len(GS.new_states) - Len(states')

C11_IdsUniqueNonZeroIncreasing ==
    /\ \A t \in Callers : \A i \in 1..Len(minted[t].ids) :
          /\ minted[t].ids[i] # 0
          /\ i > 1 => minted[t].ids[i] > minted[t].ids[i - 1]
    /\ \A t, u \in Callers :
          \A i \in 1..Len(minted[t].ids), j \in 1..Len(minted[u].ids) :
              (minted[t].ids[i] = minted[u].ids[j]) => (t = u /\ i = j)

\* the list is kept in ascending id order, without a repeated id
Sorted(bodies) == \A i \in 1..(Len(bodies) - 1) : bodies[i].id < bodies[i + 1].id

\* the entries of a list, as a set
Entries(bodies) == {bodies[i] : i \in 1..Len(bodies)}

\* C12: insert with an id that is present panics and leaves the list as it
\* was; with an absent id it adds exactly the entry (id, body), keeps every
\* other entry, and keeps the list sorted.
C12_InsertPanicsOrAdds ==
    call.op = "insert" =>
        IF \E e \in Entries(call.bodies) : e.id = call.id
        THEN call.panicked /\ call.after = call.bodies
        ELSE /\ ~call.panicked
             /\ Len(call.after) = Len(call.bodies) + 1
             /\ Entries(call.after) =
                   Entries(call.bodies) \cup {[id |-> call.id, body |-> call.body]}
             /\ Sorted(call.after)

\* C12 witness: an insert with a present id has panicked, the list holding
\* another body under that id.
C12_Witness ==
    /\ call.op = "insert"
    /\ call.panicked
    /\ \E e \in Entries(call.bodies) : e.id = call.id /\ e.body # call.body

\* the ids of a list
IdsOf(bodies) == {bodies[i].id : i \in 1..Len(bodies)}

\* C13: get right after insert or push of (id, body) returns that body, and
\* get right after remove(id) returns nothing.
C13_GetAfterInsertAndRemove ==
    /\ (call.op \in {"insert", "push"} /\ ~call.panicked) =>
            BodyListGet(call.after, call.id) = Some(call.body)
    /\ call.op = "remove" => BodyListGet(call.after, call.id) = None

\* C13 witness: an insert has put an entry between two others.
C13_Witness ==
    /\ call.op = "insert"
    /\ Len(call.after) = 3
    /\ call.after[2] = [id |-> call.id, body |-> call.body]

\* C14: remove, get and get_mut of an absent id return nothing, do not panic
\* and leave the list as it was; remove of a present id returns its body
\* and takes exactly that entry out.
C14_AbsentIsNotFound ==
    call.op \in {"remove", "get", "get_mut"} =>
        IF call.id \notin IdsOf(call.bodies)
        THEN call.result = None /\ call.after = call.bodies /\ ~call.panicked
        ELSE call.op = "remove" =>
                \E e \in Entries(call.bodies) :
                    /\ e.id = call.id
                    /\ call.result = Some(e.body)
                    /\ Entries(call.after) = Entries(call.bodies) \ {e}
                    /\ Len(call.after) = Len(call.bodies) - 1
                    /\ Sorted(call.after)

\* C14 witness: remove of an id that lies between the ids of the list and is
\* not in it.
C14_Witness ==
    /\ call.op = "remove"
    /\ Len(call.bodies) >= 2
    /\ call.id \notin IdsOf(call.bodies)
    /\ call.bodies[1].id < call.id
    /\ call.id < call.bodies[Len(call.bodies)].id

\* C15: iter_mut_pairs calls back n(n-1)/2 times, once for every two
\* different bodies of the list, the first id smaller than the second.
C15_EveryPairOnce ==
    call.op = "iter_mut_pairs" =>
        LET n == Len(call.bodies)
        IN  /\ 2 * Len(call.result) = n * (n - 1)
            /\ \A k \in 1..Len(call.result) : call.result[k][1] < call.result[k][2]
            /\ \A a, b \in IdsOf(call.bodies) :
                  a < b => Cardinality({k \in 1..Len(call.result) :
                                           call.result[k] = <<a, b>>}) = 1

\* C15 witness: the pairs of a list of three bodies were visited.
C15_Witness ==
    /\ call.op = "iter_mut_pairs"
    /\ Len(call.bodies) = 3
    /\ Len(call.result) = 3

\* C16: maybe_get_disjoint_mut returns no two references to one body; an id
\* that is present resolves to its body in the first slot that asks for it
\* and to nothing in every later slot; None and absent ids give nothing.
C16_DisjointLookup ==
    call.op = "maybe_get_disjoint_mut" =>
        LET r == call.result
            ids == call.ids
        IN  /\ \A j, k \in 1..Len(r) :
                  (j # k /\ r[j] # None /\ r[k] # None) => r[j] # r[k]
            /\ \A k \in 1..Len(ids) :
                  IF ids[k] = None THEN r[k] = None
                  ELSE IF ids[k][1] \notin IdsOf(call.bodies) THEN r[k] = None
                  ELSE IF \E j \in 1..(k - 1) : ids[j] = ids[k] THEN r[k] = None
                  ELSE r[k] # None /\ call.bodies[r[k][1]].id = ids[k][1]

\* C16 witness: selected and focused are the same body, which is in the list.
C16_Witness ==
    /\ call.op = "maybe_get_disjoint_mut"
    /\ call.ids[1] # None
    /\ call.ids[1] = call.ids[2]
    /\ call.ids[1][1] \in IdsOf(call.bodies)
    /\ call.result[2] = None

(***************************************************************************)
(* Properties of the physics step                                          *)
(***************************************************************************)
\* C18: producing a successor leaves its input as it was: a step of the
\* thread changes neither its working state nor any timeline entry, and the
\* state the thread works on after taking the seed is the seed's value, the
\* timeline entry it was cloned from staying as it is.
C18_StepLeavesInputUntouched ==
    [][\A w \in Worlds :
          Thread(w) =>
              /\ states' = states
              /\ thread[w].pc = "compute" =>
                    /\ thread'[w].state = thread[w].state
                    /\ thread'[w].new_state =
                          Some(step(Clone(thread[w].state[1]), thread[w].step_size))
              /\ (thread[w].pc = "loop" /\ generation_state[w].initial_state # None) =>
                    thread'[w].state = generation_state[w].initial_state]_vars

\* C18 witness: the thread has stepped a state whose bodies move, and holds
\* both the state and its successor.
C18_Witness ==
    /\ thread[world].pc = "relock"
    /\ thread[world].state # None
    /\ thread[world].new_state # None
    /\ thread[world].new_state[1].bodies # thread[world].state[1].bodies

\* the snapshot of the scenario: A at (-5, 0) and B at (5, 0), both at rest
\* and of mass 1, G = 1
EndToEnd == TwoBodies(5, Q(0, 1), DensityOfMass(1), DensityOfMass(1), Q(1, 1))

\* C19 as claimed: one step of 1/128 leaves A with the velocity
\* (0.1/128, 0) = (1/1280, 0) and B with its negation.
C19_VelocityTenth ==
    (call.op = "step" /\ call.universe = EndToEnd /\ call.dt = Q(1, 128)) =>
        /\ call.after.bodies[1].body.vel = <<Q(1, 1280), Q(0, 1)>>
        /\ call.after.bodies[2].body.vel = <<Q(-1, 1280), Q(0, 1)>>

\* C19 amended: one step of 1/128 leaves A with the velocity
\* (0.01/128, 0) = (1/12800, 0), towards B, and B with its negation.
C19_VelocityHundredth ==
    (call.op = "step" /\ call.universe = EndToEnd /\ call.dt = Q(1, 128)) =>
        /\ call.after.bodies[1].body.vel = <<Q(1, 12800), Q(0, 1)>>
        /\ call.after.bodies[2].body.vel = <<Q(-1, 12800), Q(0, 1)>>

\* C19 witness: the scenario was stepped and A moves towards B.
C19_Witness ==
    /\ call.op = "step"
    /\ call.universe = EndToEnd
    /\ call.dt = Q(1, 128)
    /\ call.after.bodies[1].body.vel[1][1] > 0
    /\ Qmass(call.universe.bodies[1].body) = Q(1, 1)

\* the entries of the timeline a file was written from that are marked changed
ChangedAt(sts) == {i \in 1..Len(sts) : sts[i].changed}

\* C20: a save writes exactly the entries marked changed, in timeline order,
\* each with its own timeline index and its gravity; an entry that is not
\* marked changed is not written.
C20_SavesChangedEntries ==
    call.op = "save" =>
        /\ Len(call.file) = Cardinality(ChangedAt(call.states))
        /\ \A k \in 1..Len(call.file) :
              /\ (call.file[k].index + 1) \in ChangedAt(call.states)
              /\ call.file[k].gravity = call.states[call.file[k].index + 1].gravity
              /\ k > 1 => call.file[k - 1].index < call.file[k].index

\* a snapshot without the ids of its bodies, which a load mints anew
Anonymous(u) ==
    [gravity |-> u.gravity, changed |-> u.changed,
     bodies |-> [i \in 1..Len(u.bodies) |-> u.bodies[i].body]]

\* C21: after a save and a load of the file, every snapshot saved as changed
\* is at its own index of the loaded timeline, and every other snapshot up
\* to the last changed one is the step of its predecessor: between changed
\* entries at i < j there are exactly j-i-1 reconstructed snapshots.
C21_RoundTripKeepsIndices ==
    (call.op = "load" /\ call.saved # <<>> /\ ~call.panicked) =>
        \A j \in 1..Len(call.saved) :
            (\E m \in ChangedAt(call.saved) : j <= m) =>
                /\ j <= Len(call.loaded)
                /\ IF j \in ChangedAt(call.saved)
                   THEN Anonymous(call.loaded[j]) = Anonymous(call.saved[j])
                   ELSE call.loaded[j] = NextState(call.loaded[j - 1], Scale)

\* the numeric keys that occur in a file
KeysOf(file) ==
    {file[k].bodies[p][1] : <<k, p>> \in
        {x \in (1..Len(file)) \X (1..2) : x[2] <= Len(file[x[1]].bodies)}}

\* the loaded snapshots that stand for the entries of the file, in order
LoadedEntries(loaded) == SelectSeq(loaded, LAMBDA u : u.changed)

\* C22: a load gives every numeric key of the file one id minted by that
\* load, different keys get different ids, and in every loaded entry each
\* body is stored under the id of its key.
C22_OneFreshIdPerKey ==
    (call.op = "load" /\ ~call.panicked) =>
        /\ DOMAIN call.ids = KeysOf(call.file)
        /\ \A k \in DOMAIN call.ids : call.ids[k] # 0 /\ call.ids[k] >= call.counter
        /\ \A k1 \in DOMAIN call.ids, k2 \in DOMAIN call.ids :
              k1 # k2 => call.ids[k1] # call.ids[k2]
        /\ Len(LoadedEntries(call.loaded)) = Len(call.file)
        /\ \A k \in 1..Len(call.file) :
              /\ Len(LoadedEntries(call.loaded)[k].bodies) = Len(call.file[k].bodies)
              /\ \A p \in 1..Len(call.file[k].bodies) :
                    BodyListGet(LoadedEntries(call.loaded)[k].bodies,
                                call.ids[call.file[k].bodies[p][1]])
                        = Some(call.file[k].bodies[p][2])

\* C22 witness: a file of two entries that name the same two keys in
\* different orders was loaded by a process whose counter stood at 3.
C22_Witness ==
    /\ call.op = "load"
    /\ ~call.panicked
    /\ call.counter = 3
    /\ Len(call.file) = 2
    /\ call.file[1].bodies[1][1] = 5
    /\ call.file[2].bodies[1][1] = 2
    /\ call.ids[5] = 3
    /\ call.ids[2] = 4
    /\ LoadedEntries(call.loaded)[2].bodies[1].id = 3

\* a file with no entry, with a first entry that is not at index 0, or with
\* an entry that names one key twice
Malformed(file) ==
    \/ Len(file) = 0
    \/ file[1].index # 0
    \/ \E k \in 1..Len(file) : \E p \in 1..Len(file[k].bodies), q \in 1..Len(file[k].bodies) :
          p # q /\ file[k].bodies[p][1] = file[k].bodies[q][1]

\* C23: the load of a malformed file ends in an error result and not in a
\* panic, and the timeline is the one before the load.
C23_MalformedIsAnError ==
    (call.op = "load" /\ Malformed(call.file)) =>
        /\ ~call.panicked
        /\ states = call.before

\* C24: after every frame, whichever branch it took, the target size of the
\* buffer is max(0, gen_future - (len - current_state)) for the timeline
\* and the present the frame leaves.
C24_TargetRecomputed ==
    [][FrameStep =>
          generation_state'[world].states_buffer_size =
              (IF gen_future' > Len(states') - current_state'
               THEN gen_future' - (Len(states') - current_state') ELSE 0)]_vars

\* C24 witness: a frame has just truncated a timeline that an earlier frame
\* had appended to, with the present past the start, and left a target
\* that is neither 0 nor the whole horizon.
C24_Witness ==
    /\ current_state_modified
    /\ handed = 0
    /\ epoch > 1
    /\ current_state > 0
    /\ Len(states) = current_state + 1
    /\ GS.states_buffer_size = gen_future - 1
    /\ gen_future - 1 > 0

\* the buffer is below its target and the thread has something to step
Wanted ==
    /\ Len(GS.new_states) < GS.states_buffer_size
    /\ (thread[world].state # None \/ GS.initial_state # None)

\* the snapshots computed so far, in the timeline or in the buffer
Computed == Len(states) + Len(GS.new_states)

\* C25: the thread is parked on the condition variable only while the
\* buffer is full or it has neither a seed nor a working state, and whenever
\* the buffer is below its target and the thread has a seed or a working
\* state, a snapshot is appended later on.
C25_NoLostWakeup ==
    /\ [](thread[world].pc = "waiting" => ~Wanted)
    /\ \A n \in 1..(GenFuture + MaxPlay - 1) :
          (Wanted /\ Computed = n) ~> (Computed > n)

\* C25 witness: the thread had filled the buffer and parked, the present
\* moved on, and a frame has woken the thread to compute beyond what the
\* first target asked for.
C25_Witness ==
    /\ thread[world].pc = "woken"
    /\ Wanted
    /\ current_state > 0
    /\ Len(states) >= GenFuture

\* C26: the present is always an index of the timeline, which is never
\* empty.
C26_PresentInTimeline ==
    /\ Len(states) >= 1
    /\ current_state < Len(states)

\* C26 witness: playback has reached the last snapshot of the timeline with
\* a whole step of time still accumulated.
C26_Witness ==
    /\ playing
    /\ current_state > 0
    /\ current_state = Len(states) - 1
    /\ accumulated_time >= step_size

\* the thread appends to the buffer only when the buffer is below its target
AppendsBelowTarget ==
    \A w \in Worlds :
        Len(generation_state'[w].new_states) > Len(generation_state[w].new_states)
            => Len(generation_state[w].new_states) < generation_state[w].states_buffer_size

\* C27 as claimed: while the present never moves back, the timeline is never
\* more than gen_future snapshots ahead of the present, and the thread
\* appends to the buffer only when the buffer is below its target.
C27_WithinHorizon ==
    /\ [](Len(states) - current_state <= gen_future)
    /\ [][AppendsBelowTarget]_vars

\* C27 amended: while the present never moves back, no step takes the
\* timeline further ahead of the present than gen_future snapshots or than
\* it already was (a loaded timeline may start further ahead), and the
\* thread appends to the buffer only when the buffer is below its target.
C27_NeverFurtherAhead ==
    [][/\ Len(states') - current_state' <=
            (IF Len(states) - current_state > gen_future
             THEN Len(states) - current_state ELSE gen_future)
       /\ AppendsBelowTarget]_vars

\* C27 witness: after an edit and playback the timeline is exactly
\* gen_future snapshots ahead of the present, and the thread is parked with a
\* snapshot it has computed and not appended.
C27_Witness ==
    /\ Len(states) - current_state = gen_future
    /\ current_state > 0
    /\ epoch > 1
    /\ thread[world].pc = "waiting"
    /\ thread[world].new_state # thread[world].state

\* C28: after every insert, push and remove the entries of the list are in
\* strictly ascending order of id, so no id is stored twice, and get finds
\* every stored id by binary search.
C28_AscendingAndFound ==
    /\ Sorted(call.after)
    /\ \A i \in 1..Len(call.after) :
          BodyListGet(call.after, call.after[i].id) = Some(call.after[i].body)

\* C28 witness: a push has appended its fresh id to a list that holds an
\* id inserted in front of an earlier one.
C28_Witness ==
    /\ call.op = "push"
    /\ ~call.panicked
    /\ Len(call.after) = 3
    /\ call.after[3].id = call.id
    /\ call.after[1].id = 1
    /\ call.after[2].id > 2

\* a body without its position and its velocity
Unmoved(e) == [e EXCEPT !.body.pos = <<0, 0>>, !.body.vel = <<0, 0>>]

\* C29: a step leaves as many bodies as it found, each with the id, name,
\* radius, density and color it had, and leaves the gravity and the changed
\* flag of the snapshot as they were, also when two bodies are at one place.
C29_StepMovesOnly ==
    call.op = "universe_step" =>
        /\ Len(call.after.bodies) = Len(call.universe.bodies)
        /\ \A i \in 1..Len(call.universe.bodies) :
              Unmoved(call.after.bodies[i]) = Unmoved(call.universe.bodies[i])
        /\ call.after.gravity = call.universe.gravity
        /\ call.after.changed = call.universe.changed

\* C29 witness: a snapshot marked changed was stepped in which two bodies
\* are at one place and a third is not: the two have no position any more,
\* and all three are still there.
C29_Witness ==
    /\ call.op = "universe_step"
    /\ call.universe.changed
    /\ Len(call.universe.bodies) = 3
    /\ call.universe.bodies[1].body.pos = call.universe.bodies[2].body.pos
    /\ call.universe.bodies[3].body.pos # call.universe.bodies[1].body.pos
    /\ IsNaNV(call.after.bodies[1].body.pos)
    /\ Len(call.after.bodies) = 3

\* what move_time adds to accumulated_time in a frame of e elapsed
Added(e) == IF playing THEN e ELSE 0

\* C30: in every state a World reaches, move_time leaves the present where it
\* is or moves it forward, at most to the last index of the timeline and by
\* at most as many entries as step_size fits into the accumulated time,
\* takes step_size off the accumulated time for each entry it moved, and
\* leaves the present where it is while playback is paused.
C30_PlaybackAdvance ==
    \A e \in Elapsed :
        LET moved == move_time(e)[1] - current_state
        IN  /\ moved >= 0
            /\ move_time(e)[1] <= Len(states) - 1
            /\ moved <= (accumulated_time + Added(e)) \div step_size
            /\ move_time(e)[2] = accumulated_time + Added(e) - moved * step_size
            /\ ~playing => moved = 0

====
